---- MODULE Spec2Model ----
(***************************************************************************)
(* Model of the two wake scripts of kreier/wob:                            *)
(*   src/esp32c3/gemini/power_button_penta/raspberrypi.py  (main)          *)
(*   src/python/wake_penta.py                              (wake)          *)
(* Each script opens a BLE connection inside `async with BleakClient`,     *)
(* awaits one write_gatt_char of b'\x01' and leaves the block.  The two    *)
(* scripts are run side by side, each against its own copy of the          *)
(* peripheral, under the same behaviour of the transport, so that they can *)
(* be compared.  Successive invocations of a script are successive         *)
(* processes; only the peripheral's link survives from one to the next.    *)
(***************************************************************************)
EXTENDS Naturals, Sequences, FiniteSets

VARIABLES
    run,      \* number of the current invocation, 1..MaxRuns
    env,      \* behaviour of transport, peripheral and stdout in this invocation
    pc,       \* pc[s]: position of the coroutine of script s
    handle,   \* handle[s]: the client's connection handle: none, open, closed
    link,     \* link[s]: the peripheral's single link is held by a central
    trace,    \* trace[s]: calls made in this invocation, each with its result
    rx,       \* rx[s]: payloads delivered to the peripheral in this invocation
    out,      \* out[s]: lines written to standard output in this invocation
    exc,      \* exc[s]: the exception propagating in the coroutine, or none
    status,   \* status[s]: the process runs, or has exited with 0 or with 1
    prev      \* prev[s]: summary of the previous invocation of script s

vars == <<run, env, pc, handle, link, trace, rx, out, exc, status, prev>>

\* Number of successive invocations explored.
MaxRuns == 2

Scripts == {"raspberrypi", "wake_penta"}

\* raspberrypi.py: address = "XX:XX:XX:XX:XX:XX"
address == "XX:XX:XX:XX:XX:XX"

\* wake_penta.py: DEVICE_ADDRESS = "XX:XX:XX:XX:XX:XX"
DEVICE_ADDRESS == "XX:XX:XX:XX:XX:XX"

\* CHAR_UUID of either script.
CHAR_UUID ==
    [raspberrypi |-> "0000ff01-0000-1000-8000-00805f9b34fb",
     wake_penta  |-> "your-characteristic-uuid"]

\* The address either script hands to BleakClient.
Address == [raspberrypi |-> address, wake_penta |-> DEVICE_ADDRESS]

\* The bytes literal b'\x01' of either script, as a sequence of octets.
PAYLOAD_zero == <<0>>
PAYLOAD == <<1>>

\* The text printed by raspberrypi.py.
MESSAGE == "Wake signal sent to Penta server."

\* What the transport, the peripheral and standard output do in one
\* invocation:
\*   reach   the peripheral is powered, found and answers the connect in time
\*   gatt    its GATT table has a writable characteristic with the UUID
\*   wr      what the transport does with an issued write: it acknowledges
\*           it, rejects it (link lost mid-operation), or never completes it
\*   stdout  standard output accepts the confirmation line
Envs ==
    [reach : BOOLEAN, gatt : BOOLEAN, wr : {"ack", "reject", "silent"},
     stdout : BOOLEAN]

Ev(op, to, data, res) == [op |-> op, to |-> to, data |-> data, res |-> res]

\* The last call of the trace gets its result.
SetRes(tr, r) == [tr EXCEPT ![Len(tr)].res = r]

NoPrev(e) ==
    [valid |-> FALSE, env |-> e, trace |-> <<>>, out |-> <<>>,
     exc |-> "none", status |-> "running"]

Init ==
    /\ run = 1
    /\ env \in Envs
    /\ pc = [s \in Scripts |-> "start"]
    /\ handle = [s \in Scripts |-> "none"]
    /\ link = [s \in Scripts |-> FALSE]
    /\ trace = [s \in Scripts |-> <<>>]
    /\ rx = [s \in Scripts |-> <<>>]
    /\ out = [s \in Scripts |-> <<>>]
    /\ exc = [s \in Scripts |-> "none"]
    /\ status = [s \in Scripts |-> "running"]
    /\ prev = [s \in Scripts |-> NoPrev(env)]

----------------------------------------------------------------------------
(* The calls of the scripts into bleak, asyncio and print.                 *)

\* asyncio.run(...) starts the coroutine, which enters `async with
\* BleakClient(addr)`: the connect is issued and awaited.
BleakClient_aenter_begin(s, addr) ==
    /\ pc[s] = "start"
    /\ trace' = [trace EXCEPT ![s] = Append(@, Ev("connect", addr, <<>>, "pending"))]
    /\ pc' = [pc EXCEPT ![s] = "connecting"]
    /\ UNCHANGED <<run, env, handle, link, rx, out, exc, status, prev>>

\* A connect that waits for the peripheral without any timeout.
BleakClient_aenter_end_notimeout(s) ==
    /\ pc[s] = "connecting"
    /\ env.reach /\ ~link[s]
    /\ handle' = [handle EXCEPT ![s] = "open"]
    /\ link' = [link EXCEPT ![s] = TRUE]
    /\ trace' = [trace EXCEPT ![s] = SetRes(@, "ok")]
    /\ pc' = [pc EXCEPT ![s] = "body"]
    /\ UNCHANGED <<run, env, rx, out, exc, status, prev>>

\* A failed connect that lets the coroutine go on into the block.
BleakClient_aenter_end_ignore(s) ==
    /\ pc[s] = "connecting"
    /\ IF env.reach /\ ~link[s]
         THEN /\ handle' = [handle EXCEPT ![s] = "open"]
              /\ link' = [link EXCEPT ![s] = TRUE]
              /\ trace' = [trace EXCEPT ![s] = SetRes(@, "ok")]
         ELSE /\ trace' = [trace EXCEPT ![s] = SetRes(@, "ConnectionError")]
              /\ UNCHANGED <<handle, link>>
    /\ pc' = [pc EXCEPT ![s] = "body"]
    /\ UNCHANGED <<run, env, rx, out, exc, status, prev>>

\* The awaited connect completes.  It succeeds when the peripheral is
\* reachable and its link is free; otherwise (not found, or the connect
\* timeout elapsed) __aenter__ raises, the block is not entered, __aexit__
\* is not called and the error leaves the coroutine.
BleakClient_aenter_end(s) ==
    /\ pc[s] = "connecting"
    /\ IF env.reach /\ ~link[s]
         THEN /\ handle' = [handle EXCEPT ![s] = "open"]
              /\ link' = [link EXCEPT ![s] = TRUE]
              /\ trace' = [trace EXCEPT ![s] = SetRes(@, "ok")]
              /\ pc' = [pc EXCEPT ![s] = "body"]
              /\ UNCHANGED exc
         ELSE /\ trace' = [trace EXCEPT ![s] = SetRes(@, "ConnectionError")]
              /\ exc' = [exc EXCEPT ![s] = "ConnectionError"]
              /\ pc' = [pc EXCEPT ![s] = "finish"]
              /\ UNCHANGED <<handle, link>>
    /\ UNCHANGED <<run, env, rx, out, status, prev>>

\* A write that is sent without looking the characteristic up.
write_gatt_char_begin_nolookup(s, char, data) ==
    /\ pc[s] = "body"
    /\ trace' = [trace EXCEPT ![s] = Append(@, Ev("write", char, data, "pending"))]
    /\ pc' = [pc EXCEPT ![s] = "writing"]
    /\ UNCHANGED <<run, env, handle, link, rx, out, exc, status, prev>>

\* client.write_gatt_char(char, data) is called: the characteristic is
\* looked up among the peripheral's; when there is none the call raises
\* at once, otherwise the write is issued and awaited.
write_gatt_char_begin(s, char, data) ==
    /\ pc[s] = "body"
    /\ IF env.gatt
         THEN /\ trace' = [trace EXCEPT ![s] =
                              Append(@, Ev("write", char, data, "pending"))]
              /\ pc' = [pc EXCEPT ![s] = "writing"]
              /\ UNCHANGED exc
         ELSE /\ trace' = [trace EXCEPT ![s] =
                              Append(@, Ev("write", char, data,
                                           "CharacteristicNotFoundError"))]
              /\ exc' = [exc EXCEPT ![s] = "CharacteristicNotFoundError"]
              /\ pc' = [pc EXCEPT ![s] = "exit"]
    /\ UNCHANGED <<run, env, handle, link, rx, out, status, prev>>

\* A rejected write that is tried again.
write_gatt_char_end_retry(s, next) ==
    /\ pc[s] = "writing"
    /\ env.wr # "silent"
    /\ IF env.wr = "ack"
         THEN /\ rx' = [rx EXCEPT ![s] =
                           Append(@, [to |-> trace[s][Len(trace[s])].to,
                                      data |-> trace[s][Len(trace[s])].data])]
              /\ trace' = [trace EXCEPT ![s] = SetRes(@, "ok")]
              /\ pc' = [pc EXCEPT ![s] = next]
         ELSE /\ trace' = [trace EXCEPT ![s] = SetRes(@, "WriteError")]
              /\ pc' = [pc EXCEPT ![s] = IF Len(trace[s]) < 3 THEN "body" ELSE "exit"]
              /\ UNCHANGED rx
    /\ UNCHANGED <<run, env, handle, link, out, exc, status, prev>>

\* A rejected write after which the block goes on as if it had succeeded.
write_gatt_char_end_goon(s, next) ==
    /\ pc[s] = "writing"
    /\ env.wr # "silent"
    /\ IF env.wr = "ack"
         THEN /\ rx' = [rx EXCEPT ![s] =
                           Append(@, [to |-> trace[s][Len(trace[s])].to,
                                      data |-> trace[s][Len(trace[s])].data])]
              /\ trace' = [trace EXCEPT ![s] = SetRes(@, "ok")]
              /\ UNCHANGED exc
         ELSE /\ trace' = [trace EXCEPT ![s] = SetRes(@, "WriteError")]
              /\ exc' = [exc EXCEPT ![s] = "WriteError"]
              /\ UNCHANGED rx
    /\ pc' = [pc EXCEPT ![s] = next]
    /\ UNCHANGED <<run, env, handle, link, out, status, prev>>

\* The awaited write completes: acknowledged, the payload has reached the
\* characteristic and the block goes on at `next`; rejected, the call
\* raises and the block is left.  A write the transport never completes
\* leaves the coroutine suspended: the scripts set no timeout on it.
write_gatt_char_end(s, next) ==
    /\ pc[s] = "writing"
    /\ env.wr # "silent"
    /\ IF env.wr = "ack"
         THEN /\ rx' = [rx EXCEPT ![s] =
                           Append(@, [to |-> trace[s][Len(trace[s])].to,
                                      data |-> trace[s][Len(trace[s])].data])]
              /\ trace' = [trace EXCEPT ![s] = SetRes(@, "ok")]
              /\ pc' = [pc EXCEPT ![s] = next]
              /\ UNCHANGED exc
         ELSE /\ trace' = [trace EXCEPT ![s] = SetRes(@, "WriteError")]
              /\ exc' = [exc EXCEPT ![s] = "WriteError"]
              /\ pc' = [pc EXCEPT ![s] = "exit"]
              /\ UNCHANGED rx
    /\ UNCHANGED <<run, env, handle, link, out, status, prev>>

\* print(text): the line goes to standard output, or print raises.
py_print(s, text) ==
    /\ pc[s] = "print"
    /\ IF env.stdout
         THEN /\ out' = [out EXCEPT ![s] = Append(@, text)]
              /\ trace' = [trace EXCEPT ![s] = Append(@, Ev("print", "stdout", <<>>, "ok"))]
              /\ UNCHANGED exc
         ELSE /\ trace' = [trace EXCEPT ![s] = Append(@, Ev("print", "stdout", <<>>, "OSError"))]
              /\ exc' = [exc EXCEPT ![s] = "OSError"]
              /\ UNCHANGED out
    /\ pc' = [pc EXCEPT ![s] = "exit"]
    /\ UNCHANGED <<run, env, handle, link, rx, status, prev>>

\* An exit from the block that disconnects only when no exception is
\* propagating.
BleakClient_aexit_onlyclean(s) ==
    /\ pc[s] = "exit"
    /\ IF exc[s] = "none"
         THEN /\ trace' = [trace EXCEPT ![s] = Append(@, Ev("disconnect", "", <<>>, "ok"))]
              /\ handle' = [handle EXCEPT ![s] = "closed"]
              /\ link' = [link EXCEPT ![s] = FALSE]
         ELSE UNCHANGED <<trace, handle, link>>
    /\ pc' = [pc EXCEPT ![s] = "finish"]
    /\ UNCHANGED <<run, env, rx, out, exc, status, prev>>

\* An exit from the block that never disconnects.
BleakClient_aexit_leak(s) ==
    /\ pc[s] = "exit"
    /\ pc' = [pc EXCEPT ![s] = "finish"]
    /\ UNCHANGED <<run, env, handle, link, trace, rx, out, exc, status, prev>>

\* An exit from the block that disconnects and then runs the block again.
BleakClient_aexit_again(s) ==
    /\ pc[s] = "exit"
    /\ trace' = [trace EXCEPT ![s] = Append(@, Ev("disconnect", "", <<>>, "ok"))]
    /\ handle' = [handle EXCEPT ![s] = "closed"]
    /\ link' = [link EXCEPT ![s] = FALSE]
    /\ pc' = [pc EXCEPT ![s] = IF Len(trace[s]) < 4 THEN "body" ELSE "finish"]
    /\ UNCHANGED <<run, env, rx, out, exc, status, prev>>

\* The `async with` block is left, normally or by an exception:
\* __aexit__ disconnects and does not suppress the exception.
BleakClient_aexit(s) ==
    /\ pc[s] = "exit"
    /\ trace' = [trace EXCEPT ![s] = Append(@, Ev("disconnect", "", <<>>, "ok"))]
    /\ handle' = [handle EXCEPT ![s] = "closed"]
    /\ link' = [link EXCEPT ![s] = FALSE]
    /\ pc' = [pc EXCEPT ![s] = "finish"]
    /\ UNCHANGED <<run, env, rx, out, exc, status, prev>>

\* asyncio.run(...) returns or re-raises at module level, where nothing
\* catches: the process exits with 0, or with 1 on the uncaught exception.
asyncio_run_end(s) ==
    /\ pc[s] = "finish"
    /\ status' = [status EXCEPT ![s] = IF exc[s] = "none" THEN "exit0" ELSE "exit1"]
    /\ pc' = [pc EXCEPT ![s] = "done"]
    /\ UNCHANGED <<run, env, handle, link, trace, rx, out, exc, prev>>

----------------------------------------------------------------------------
(* raspberrypi.py                                                          *)

main_run == BleakClient_aenter_begin("raspberrypi", Address["raspberrypi"])

main_connected == BleakClient_aenter_end("raspberrypi")

main_write ==
    write_gatt_char_begin("raspberrypi", CHAR_UUID["raspberrypi"], PAYLOAD)

main_written == write_gatt_char_end("raspberrypi", "print")

main_print == py_print("raspberrypi", MESSAGE)

main_exit == BleakClient_aexit("raspberrypi")

main_end == asyncio_run_end("raspberrypi")

main ==
    \/ main_run
    \/ main_connected
    \/ main_write
    \/ main_written
    \/ main_print
    \/ main_exit
    \/ main_end

(* wake_penta.py                                                           *)

wake_run == BleakClient_aenter_begin("wake_penta", Address["wake_penta"])

wake_connected == BleakClient_aenter_end("wake_penta")

wake_write ==
    write_gatt_char_begin("wake_penta", CHAR_UUID["wake_penta"], PAYLOAD)

wake_written == write_gatt_char_end("wake_penta", "exit")

\* wake_penta.py leaving its block without a disconnect.
wake_exit_leak == BleakClient_aexit_leak("wake_penta")

wake_exit == BleakClient_aexit("wake_penta")

wake_end == asyncio_run_end("wake_penta")

wake ==
    \/ wake_run
    \/ wake_connected
    \/ wake_write
    \/ wake_written
    \/ wake_exit
    \/ wake_end

\* The scripts are invoked again: new processes, in which nothing of the
\* previous ones is left but the state of the peripheral's link.
NextInvocation ==
    /\ run < MaxRuns
    /\ \A s \in Scripts : pc[s] = "done"
    /\ run' = run + 1
    /\ \E e \in Envs : env' = e
    /\ prev' = [s \in Scripts |->
                  [valid |-> TRUE, env |-> env, trace |-> trace[s],
                   out |-> out[s], exc |-> exc[s], status |-> status[s]]]
    /\ pc' = [s \in Scripts |-> "start"]
    /\ handle' = [s \in Scripts |-> "none"]
    /\ trace' = [s \in Scripts |-> <<>>]
    /\ rx' = [s \in Scripts |-> <<>>]
    /\ out' = [s \in Scripts |-> <<>>]
    /\ exc' = [s \in Scripts |-> "none"]
    /\ status' = [s \in Scripts |-> "running"]
    /\ UNCHANGED link

Next ==
    \/ main
    \/ wake
    \/ NextInvocation

Spec == Init /\ [][Next]_vars

\* The event loop resumes a coroutine whenever the call it awaits has
\* completed, and the transport completes every connect (at the latest when
\* its timeout elapses) and every disconnect.
FairSpec == Spec /\ WF_vars(main) /\ WF_vars(wake)

----------------------------------------------------------------------------
(* Observations on a trace.                                                *)

\* The positions of the calls of kind o.
At(tr, o) == {i \in DOMAIN tr : tr[i].op = o}

IsTransport(e) == e.op # "print"

\* The calls made to the BLE transport, in order.
Transport(tr) == SelectSeq(tr, IsTransport)

\* A transport call without the configured constant it was addressed to.
Shape(tr) ==
    [i \in DOMAIN Transport(tr) |->
        [op |-> Transport(tr)[i].op, data |-> Transport(tr)[i].data,
         res |-> Transport(tr)[i].res]]

Errors == {"ConnectionError", "CharacteristicNotFoundError", "WriteError", "OSError"}

\* The transport calls of a run in which everything works.
GoodRun(s) ==
    <<Ev("connect", Address[s], <<>>, "ok"),
      Ev("write", CHAR_UUID[s], <<1>>, "ok"),
      Ev("disconnect", "", <<>>, "ok")>>

\* Everything the run of script s depends on works.
Favourable(s) ==
    /\ env.reach /\ env.gatt /\ env.wr = "ack"
    /\ (s = "raspberrypi" => env.stdout)

----------------------------------------------------------------------------
\* C1: when an invocation has terminated, its connection handle is not
\* open and the peripheral's link is free: a connection that was opened has
\* been closed by a disconnect, whether the write succeeded, failed, or the
\* confirmation after it failed.
C1_ConnectionReleased ==
    \A s \in Scripts :
        pc[s] = "done" =>
            /\ handle[s] # "open"
            /\ ~link[s]
            /\ (trace[s][1].res = "ok" =>
                    /\ handle[s] = "closed"
                    /\ At(trace[s], "disconnect") # {})

\* A run of raspberrypi.py has ended after its confirmation failed.
C1_Witness ==
    /\ pc["raspberrypi"] = "done"
    /\ exc["raspberrypi"] = "OSError"
    /\ handle["raspberrypi"] = "closed"

\* C2: in one invocation at most one write is made, to the configured
\* characteristic, with the one-octet payload 01; the peripheral receives
\* nothing else; a successful run has made exactly one such write, and no
\* call other than connect, write and disconnect goes to the transport.
C2_OneWriteOfOne ==
    \A s \in Scripts :
        /\ Cardinality(At(trace[s], "write")) <= 1
        /\ \A i \in At(trace[s], "write") :
              /\ trace[s][i].to = CHAR_UUID[s]
              /\ Len(trace[s][i].data) = 1
              /\ trace[s][i].data[1] = 1
        /\ Len(rx[s]) <= 1
        /\ \A i \in DOMAIN rx[s] :
              rx[s][i] = [to |-> CHAR_UUID[s], data |-> <<1>>]
        /\ \A i \in DOMAIN Transport(trace[s]) :
              Transport(trace[s])[i].op \in {"connect", "write", "disconnect"}
        /\ (status[s] = "exit0" =>
              /\ Cardinality(At(trace[s], "write")) = 1
              /\ Len(rx[s]) = 1)

\* A run has ended in success.
C2_Witness ==
    /\ pc["wake_penta"] = "done"
    /\ status["wake_penta"] = "exit0"
    /\ Len(rx["wake_penta"]) = 1

\* C3: when the peripheral is unreachable no write is ever made and
\* nothing reaches the peripheral, and the invocation ends in failure with
\* ConnectionError.
C3_UnreachableNoWrite ==
    \A s \in Scripts :
        (~env.reach \/ (trace[s] # <<>> /\ trace[s][1].res = "ConnectionError")) =>
            /\ At(trace[s], "write") = {}
            /\ rx[s] = <<>>
            /\ (pc[s] = "done" =>
                    /\ exc[s] = "ConnectionError"
                    /\ status[s] = "exit1")

\* A run against an unreachable peripheral has ended.
C3_Witness ==
    /\ ~env.reach
    /\ pc["raspberrypi"] = "done"
    /\ trace["raspberrypi"][1].res = "ConnectionError"

\* C4: one invocation makes at most one connect and at most one write; a
\* connect or write that failed is followed by no further connect or write;
\* and an invocation in which a step failed ends with exit status 1 and
\* with the error of that step.
C4_NoRetryNoRecovery ==
    \A s \in Scripts :
        /\ Cardinality(At(trace[s], "connect")) <= 1
        /\ Cardinality(At(trace[s], "write")) <= 1
        /\ \A i \in DOMAIN trace[s] :
              trace[s][i].res \in Errors =>
                  /\ \A j \in DOMAIN trace[s] :
                        j > i => trace[s][j].op = "disconnect"
                  /\ exc[s] = trace[s][i].res
                  /\ (pc[s] = "done" => status[s] = "exit1")
        /\ (pc[s] = "done" => (status[s] = "exit0" <=> exc[s] = "none"))

\* A run has ended after its write was rejected.
C4_Witness ==
    /\ pc["wake_penta"] = "done"
    /\ exc["wake_penta"] = "WriteError"
    /\ status["wake_penta"] = "exit1"

C6_CharacteristicMissing ==
    \A s \in Scripts :
        (env.reach /\ ~env.gatt) =>
            /\ rx[s] = <<>>
            /\ (pc[s] = "done" =>
                    /\ exc[s] = "CharacteristicNotFoundError"
                    /\ status[s] = "exit1")

\* A run against a reachable peripheral without the characteristic has
\* ended.
C6_Witness ==
    /\ env.reach /\ ~env.gatt
    /\ pc["wake_penta"] = "done"
    /\ trace["wake_penta"][1].res = "ok"
    /\ exc["wake_penta"] = "CharacteristicNotFoundError"

\* C7 as stated: every run against a reachable peripheral with a writable
\* characteristic is successful, with its connect, write of 01 and
\* disconnect.
C7_EveryRunSucceeds ==
    \A s \in Scripts :
        (pc[s] = "done" /\ env.reach /\ env.gatt) =>
            /\ status[s] = "exit0"
            /\ Transport(trace[s]) = GoodRun(s)

\* C7, amended: a run in which the peripheral is reachable, the
\* characteristic writable, the write accepted and the confirmation
\* writable is successful with its own connect, write of 01 and disconnect,
\* whatever the runs before it did; and a run under the same conditions as
\* the run before it ends with the same calls, output and outcome.
C7_RunsIndependent ==
    \A s \in Scripts :
        pc[s] = "done" =>
            /\ (Favourable(s) =>
                    /\ status[s] = "exit0"
                    /\ Transport(trace[s]) = GoodRun(s)
                    /\ rx[s] = <<[to |-> CHAR_UUID[s], data |-> <<1>>]>>)
            /\ ((prev[s].valid /\ prev[s].env = env) =>
                    /\ trace[s] = prev[s].trace
                    /\ out[s] = prev[s].out
                    /\ exc[s] = prev[s].exc
                    /\ status[s] = prev[s].status)

\* A second successful run has followed a first successful run.
C7_Witness ==
    /\ run = 2
    /\ \A s \in Scripts :
          /\ pc[s] = "done"
          /\ Favourable(s)
          /\ prev[s].valid /\ prev[s].status = "exit0"
          /\ status[s] = "exit0"

\* C8: the transport calls of an invocation are made in the order connect,
\* write, disconnect: a write is awaited only with the connection open, it
\* follows a successful connect, the disconnect follows a write that has
\* completed or failed, and nothing follows the disconnect.
C8_ConnectWriteDisconnect ==
    \A s \in Scripts :
        /\ (pc[s] = "writing" => handle[s] = "open")
        /\ \A i \in DOMAIN Transport(trace[s]) :
              /\ (Transport(trace[s])[i].op = "connect" => i = 1)
              /\ (Transport(trace[s])[i].op = "write" =>
                    /\ i = 2
                    /\ Transport(trace[s])[1] = Ev("connect", Address[s], <<>>, "ok"))
              /\ (Transport(trace[s])[i].op = "disconnect" =>
                    /\ i = 3
                    /\ i = Len(Transport(trace[s]))
                    /\ Transport(trace[s])[2].op = "write"
                    /\ Transport(trace[s])[2].res # "pending"
                    /\ handle[s] = "closed")

\* A run has made its three calls, the write having been rejected.
C8_Witness ==
    /\ Len(Transport(trace["raspberrypi"])) = 3
    /\ Transport(trace["raspberrypi"])[2].res = "WriteError"
    /\ Transport(trace["raspberrypi"])[3].op = "disconnect"

\* C9 as stated: under the same behaviour of the transport the two scripts
\* make the same transport calls and end with the same outcome.
C9_SameCallsSameOutcome ==
    (\A s \in Scripts : pc[s] = "done") =>
        /\ Shape(trace["raspberrypi"]) = Shape(trace["wake_penta"])
        /\ status["raspberrypi"] = status["wake_penta"]
        /\ exc["raspberrypi"] = exc["wake_penta"]

\* C9, amended: under the same behaviour of the transport the two scripts
\* make the same transport calls with the same results and deliver the
\* same payload, and they end with the same outcome unless the
\* confirmation of raspberrypi.py fails: then raspberrypi.py alone ends in
\* failure, with the error of the confirmation.
C9_SameCallsSameOutcomeButConfirmation ==
    (\A s \in Scripts : pc[s] = "done") =>
        /\ Shape(trace["raspberrypi"]) = Shape(trace["wake_penta"])
        /\ Len(rx["raspberrypi"]) = Len(rx["wake_penta"])
        /\ \A i \in DOMAIN rx["raspberrypi"] :
              rx["raspberrypi"][i].data = rx["wake_penta"][i].data
        /\ IF exc["raspberrypi"] = "OSError"
             THEN /\ status["raspberrypi"] = "exit1"
                  /\ status["wake_penta"] = "exit0"
                  /\ exc["wake_penta"] = "none"
             ELSE /\ status["raspberrypi"] = status["wake_penta"]
                  /\ exc["raspberrypi"] = exc["wake_penta"]

\* Both scripts have ended after the same rejected write.
C9_Witness ==
    /\ \A s \in Scripts : pc[s] = "done" /\ exc[s] = "WriteError"
    /\ Len(Shape(trace["wake_penta"])) = 3

\* C10: raspberrypi.py writes its confirmation at most once per run, and
\* only after a connect and a write of 01 that succeeded and before the
\* disconnect, with the line being the message of the script.
C10_ConfirmationAfterWrite ==
    /\ Len(out["raspberrypi"]) <= 1
    /\ Cardinality(At(trace["raspberrypi"], "print")) <= 1
    /\ \A i \in DOMAIN out["raspberrypi"] : out["raspberrypi"][i] = MESSAGE
    /\ (out["raspberrypi"] # <<>> =>
           /\ At(trace["raspberrypi"], "print") # {}
           /\ exc["raspberrypi"] = "none")
    /\ \A i \in At(trace["raspberrypi"], "print") :
          /\ i = 3
          /\ trace["raspberrypi"][1] = Ev("connect", address, <<>>, "ok")
          /\ trace["raspberrypi"][2] =
                Ev("write", CHAR_UUID["raspberrypi"], <<1>>, "ok")
          /\ (trace["raspberrypi"][i].res = "ok" <=> out["raspberrypi"] # <<>>)
          /\ (pc["raspberrypi"] = "exit" => handle["raspberrypi"] = "open")

\* The confirmation has been written and the connection is still open.
C10_Witness ==
    /\ out["raspberrypi"] = <<MESSAGE>>
    /\ pc["raspberrypi"] = "exit"
    /\ handle["raspberrypi"] = "open"

====
